---- MODULE Spec2Model ----
(***************************************************************************)
(* Model of dst_airlines/clients/aviationstack.py: the staged-status fetch *)
(* (fetch_in_air_flights), the airborne predicate (is_in_air) and the      *)
(* recursive pruning utility (prune), together with the credential         *)
(* provider of dst_airlines/utils/get_tool_fernet.py.                      *)
(*                                                                         *)
(* Python values are modelled as tagged records [t |-> tag, v |-> value]   *)
(* so that values of different Python types can be compared:              *)
(*   None -> "null", bool -> "bool", int -> "num", str -> "str",           *)
(*   list -> "list" (v is a sequence), dict -> "dict" (v is a function     *)
(*   whose domain is the set of keys).                                     *)
(***************************************************************************)
EXTENDS Integers, Sequences, FiniteSets, TLC

\* ------------------------------------------------------------------------
\* Bounds
\* ------------------------------------------------------------------------

\* Largest number of nodes (scalars and containers) of a generated JSON value.
MaxNodes == 4

\* Largest length of a list found under "data" or "results" in a response.
MaxFlights == 2

\* ------------------------------------------------------------------------
\* JSON-like Python values
\* ------------------------------------------------------------------------

Null == [t |-> "null", v |-> 0]

Bool(b) == [t |-> "bool", v |-> b]

Num(n) == [t |-> "num", v |-> n]

Str(s) == [t |-> "str", v |-> s]

List(s) == [t |-> "list", v |-> s]

Dict(m) == [t |-> "dict", v |-> m]

EmptyMap == [k \in {} |-> Null]

IsNone(x) == x.t = "null"

IsDict(x) == x.t = "dict"

IsList(x) == x.t = "list"

\* k in d (d a dict)
HasKey(d, k) == k \in DOMAIN d.v

\* d.get(k): the value under k, None when the key is absent
Get(d, k) == IF k \in DOMAIN d.v THEN d.v[k] ELSE Null

\* A dict given as a set of <<key, value>> pairs with distinct keys.
MkDict(pairs) ==
    Dict([k \in {p[1] : p \in pairs} |-> (CHOOSE p \in pairs : p[1] = k)[2]])

\* Python truthiness, as used by `x or y`, `if x` and `if not x`.
Truthy(x) ==
    CASE x.t = "null" -> FALSE
      [] x.t = "bool" -> x.v
      [] x.t = "num"  -> x.v # 0
      [] x.t = "str"  -> x.v # ""
      [] x.t = "list" -> Len(x.v) > 0
      [] x.t = "dict" -> DOMAIN x.v # {}

\* a or b
Or(a, b) == IF Truthy(a) THEN a ELSE b

\* ------------------------------------------------------------------------
\* prune (aviationstack.py, lines 32-54)
\* ------------------------------------------------------------------------

\* x in (None, "", [], {})
InEmpties(x) ==
    \/ x.t = "null"
    \/ x.t = "str" /\ x.v = ""
    \/ x.t = "list" /\ Len(x.v) = 0
    \/ x.t = "dict" /\ DOMAIN x.v = {}

\* Plausible slip: the emptiness test looks at the value before it was pruned.
SkipsUnpruned(v, pv) == InEmpties(v)

\* Plausible slip: `if not pv: continue`, which also drops False and 0.
SkipsFalsy(v, pv) == ~Truthy(pv)

\* `if pv in (None, "", [], {}): continue` -- the child v, pruned to pv, is dropped
Skips(v, pv) == InEmpties(pv)

RECURSIVE prune(_)
prune(obj) ==
    IF IsDict(obj) THEN
        LET pv == [k \in DOMAIN obj.v |-> prune(obj.v[k])]
            kept == {k \in DOMAIN obj.v : ~Skips(obj.v[k], pv[k])}
            cleaned == [k \in kept |-> pv[k]]
        IN  IF kept # {} THEN Dict(cleaned) ELSE Null
    ELSE IF IsList(obj) THEN
        LET n == Len(obj.v)
            pl == [i \in 1..n |-> prune(obj.v[i])]
            keptIdx == {i \in 1..n : ~Skips(obj.v[i], pl[i])}
            \* the kept elements in their original order
            rank(i) == Cardinality({j \in keptIdx : j <= i})
            cleaned_list == [r \in 1..Cardinality(keptIdx) |->
                                pl[CHOOSE i \in keptIdx : rank(i) = r]]
        IN  IF keptIdx # {} THEN List(cleaned_list) ELSE Null
    ELSE obj

\* ------------------------------------------------------------------------
\* is_in_air (aviationstack.py, lines 57-70)
\* ------------------------------------------------------------------------

\* Plausible slip: `not live.get("is_ground")` instead of `is False`.
GroundFlagClear_falsy(live) == ~Truthy(Get(live, "is_ground"))

\* live.get("is_ground") is False
GroundFlagClear(live) == Get(live, "is_ground") = Bool(FALSE)

is_in_air(flight) ==
    LET live == Get(flight, "live")
    IN  IF IsDict(live) /\ HasKey(live, "is_ground")
        THEN GroundFlagClear(live)
        ELSE Get(flight, "flight_status") = Str("active")

\* ------------------------------------------------------------------------
\* get_credentials (get_tool_fernet.py, lines 18-36)
\* ------------------------------------------------------------------------

\* os.getenv(name) when the variable is not set (Python None)
Unset == "<unset>"

\* Values of ENCRYPTION_KEY: unset, empty, not a Fernet key, a Fernet key,
\* and the same Fernet key written between quotes.
EnvKeys == {Unset, "", "short", "fernet-key", "'fernet-key'"}

\* Values of API_URL_AVIONSTACK
EnvHosts == {Unset, "", "api.example/v1", "https://api.example/v1/"}

\* Values of TOKEN_AVIONSTACK: plaintext, a Fernet token made with the key,
\* and a Fernet-looking token the key does not decrypt.
EnvTokens == {Unset, "", "plain-token", "gAAAAA-good", "gAAAAA-bad"}

Envs == [key : EnvKeys, host : EnvHosts, token : EnvTokens]

\* s.strip().strip('"').strip("'")
_clean(s) == IF s = "'fernet-key'" THEN "fernet-key" ELSE s

\* Fernet(key) accepts only a 32-byte url-safe base64 key, else ValueError
IsFernetKey(k) == k = "fernet-key"

\* v.startswith("gAAAAA")
LooksEncrypted(v) == v \in {"gAAAAA-good", "gAAAAA-bad"}

\* cipher.decrypt(v) succeeds (otherwise it raises InvalidToken)
Decrypts(v) == v = "gAAAAA-good"

_maybe_decrypt(value) ==
    LET v == _clean(value)
    IN  IF LooksEncrypted(v) THEN "plain-token" ELSE v

\* host.startswith(("http://", "https://"))
HasScheme(h) == h = "https://api.example/v1/"

\* host.rstrip("/")
Rstrip(h) == IF h = "https://api.example/v1/" THEN "https://api.example/v1" ELSE h

\* not s  (s a string or None)
NotStr(s) == s = Unset \/ s = ""

DefaultLimit == 100

NoCreds == [host |-> "", token |-> "", limit |-> 0]

Raise(e) == [exc |-> e, value |-> NoCreds]

\* The exception get_credentials raises ("" when it returns), and its value.
get_credentials(env) ==
    IF NotStr(env.key) THEN Raise("RuntimeError")
    ELSE IF ~IsFernetKey(_clean(env.key)) THEN Raise("ValueError")
    ELSE IF NotStr(env.host) \/ NotStr(env.token) THEN Raise("RuntimeError")
    ELSE IF LooksEncrypted(_clean(env.token)) /\ ~Decrypts(_clean(env.token))
         THEN Raise("InvalidToken")
    ELSE IF ~HasScheme(env.host) THEN Raise("RuntimeError")
    ELSE [exc |-> "",
          value |-> [host |-> Rstrip(env.host),
                     token |-> _maybe_decrypt(env.token),
                     limit |-> DefaultLimit]]

\* ------------------------------------------------------------------------
\* Inputs: generated JSON values, flight records, HTTP responses
\* ------------------------------------------------------------------------

Scalars == {Null, Bool(FALSE), Num(0), Str(""), Str("active")}

Keys == {"live", "is_ground", "flight_status"}

SeqsUpTo(S, n) == UNION {[1..k -> S] : k \in 0..n}

Extend(m, k, x) == [j \in DOMAIN m \cup {k} |-> IF j = k THEN x ELSE m[j]]

RECURSIVE ValuesOfSize(_), SeqsOfSize(_), MapsOfSize(_, _)
\* The JSON values made of exactly n nodes.
ValuesOfSize(n) ==
    (IF n = 1 THEN Scalars ELSE {})
    \cup {List(s) : s \in SeqsOfSize(n - 1)}
    \cup {Dict(m) : m \in MapsOfSize(Keys, n - 1)}

\* The sequences of JSON values with n nodes in total.
SeqsOfSize(n) ==
    IF n = 0 THEN {<<>>}
    ELSE UNION {{<<x>> \o s : x \in ValuesOfSize(k), s \in SeqsOfSize(n - k)} :
                k \in 1..n}

\* The mappings from some of the keys to JSON values with n nodes in total.
MapsOfSize(keys, n) ==
    IF keys = {} THEN (IF n = 0 THEN {EmptyMap} ELSE {})
    ELSE LET k == CHOOSE k \in keys : TRUE
             rest == keys \ {k}
         IN  MapsOfSize(rest, n)
             \cup UNION {{Extend(m, k, x) :
                              x \in ValuesOfSize(j), m \in MapsOfSize(rest, n - j)} :
                         j \in 1..n}

JsonValues == UNION {ValuesOfSize(n) : n \in 1..MaxNodes}

\* Marks a key that a generated record does not have.
Absent == [t |-> "absent", v |-> 0]

\* The record with the given fields, leaving out those that are Absent.
Record(fields) == MkDict({p \in fields : p[2] # Absent})

LiveValues ==
    {Absent, Null, Str("x"), List(<<>>), Dict(EmptyMap),
     MkDict({<<"updated", Str("x")>>}),
     MkDict({<<"is_ground", Bool(FALSE)>>, <<"updated", Null>>})}
    \cup {MkDict({<<"is_ground", g>>}) :
            g \in {Bool(FALSE), Bool(TRUE), Null, Num(0), Str("")}}

StatusValues == {Absent, Null, Str(""), Str("active"), Str("scheduled")}

ExtraValues == {Absent, Null, Str("x")}

\* Flight records: mappings in which `live`, `flight_status` and one other
\* field take every combination of the values above.
FlightRecords ==
    {Record({<<"live", l>>, <<"flight_status", s>>, <<"extra", e>>}) :
        l \in LiveValues, s \in StatusValues, e \in ExtraValues}

Inputs == JsonValues \cup FlightRecords

\* Elements found in a flights list of a response.
AirborneLive ==
    Record({<<"live", MkDict({<<"is_ground", Bool(FALSE)>>})>>,
            <<"flight_status", Str("scheduled")>>, <<"extra", Null>>})

GroundedLive ==
    Record({<<"live", MkDict({<<"is_ground", Bool(TRUE)>>})>>,
            <<"flight_status", Str("active")>>})

AirborneStatus ==
    Record({<<"flight_status", Str("active")>>, <<"extra", Str("")>>})

Scheduled ==
    Record({<<"live", Null>>, <<"flight_status", Str("scheduled")>>})

FlightElems == {Num(1), AirborneLive, GroundedLive, AirborneStatus, Scheduled}

FlightLists == {List(s) : s \in SeqsUpTo(FlightElems, MaxFlights)}

\* Values of the `data` and `results` keys of a response body.
FieldValues == {Absent, Null, MkDict({<<"x", Num(1)>>})} \cup FlightLists

\* Values of the `error` key of a response body.
ErrorValues ==
    {Null, Bool(FALSE), Num(0), Str(""), List(<<>>), Dict(EmptyMap),
     Str("boom"), Num(1), List(<<Num(1)>>),
     MkDict({<<"code", Num(104)>>}),
     MkDict({<<"code", Num(104)>>, <<"message", Str("limit reached")>>})}

Payloads ==
    {Null, Bool(TRUE), Num(1), Str("x"), List(<<>>), List(<<AirborneLive>>)}
    \cup {Record({<<"data", d>>, <<"results", r>>}) :
            d \in FieldValues, r \in FieldValues}
    \cup {Record({<<"error", e>>, <<"data", d>>}) :
            e \in ErrorValues, d \in {Absent, List(<<AirborneLive>>)}}

\* A response body: text that resp.json() parses to `value`, or text that
\* it rejects with a ValueError.
NotJson == [json |-> FALSE, value |-> Null]

Bodies == {NotJson} \cup {[json |-> TRUE, value |-> p] : p \in Payloads}

StatusCodes == {200, 404, 500}

\* requests.get returns a response or raises one of these.
TransportFailures == {"Timeout", "ConnectionError", "RequestException"}

\* ------------------------------------------------------------------------
\* State
\* ------------------------------------------------------------------------

VARIABLES
    pc,             \* position of the running call
    creds,          \* (host, token, limit) returned by get_credentials
    requests_sent,  \* the GET requests issued so far
    resp,           \* the response of requests.get
    status,         \* the FetchStatus record of the call
    payload,        \* resp.json()
    flights,        \* the selected flights list (None when there is none)
    extracted,      \* the list built by the extraction loop
    idx,            \* position of the extraction loop in flights
    exc,            \* the exception that left the call ("" when none)
    arg,            \* argument of a direct call of prune / is_in_air
    pruned,         \* prune(arg)
    repruned,       \* prune(prune(arg))
    airborne,       \* is_in_air(arg)
    kept            \* prune(arg) or arg

vars == <<pc, creds, requests_sent, resp, status, payload, flights, extracted,
          idx, exc, arg, pruned, repruned, airborne, kept>>

fetchVars == <<creds, requests_sent, resp, status, payload, flights, extracted,
               idx, exc>>

pureVars == <<arg, pruned, repruned, airborne, kept>>

\* error_message: None, or a message text with the values formatted into it
NoMessage == [set |-> FALSE, text |-> "", args |-> <<>>]

Message(text, args) == [set |-> TRUE, text |-> text, args |-> args]

\* FetchStatus(...) as constructed at the start of fetch_in_air_flights
NewStatus ==
    [connected |-> FALSE, http_ok |-> FALSE, json_ok |-> FALSE,
     api_ok |-> FALSE, has_flights_array |-> FALSE, extracted_any |-> FALSE,
     error_message |-> NoMessage, flights_extracted |-> <<>>, raw |-> Null]

NoResponse == [status_code |-> 0, body |-> NotJson]

\* A call of fetch_in_air_flights whose status record has been constructed.
InitFetch ==
    /\ pc = "get_credentials"
    /\ creds = NoCreds
    /\ requests_sent = <<>>
    /\ resp = NoResponse
    /\ status = NewStatus
    /\ payload = Null
    /\ flights = Null
    /\ extracted = <<>>
    /\ idx = 1
    /\ exc = ""
    /\ arg = Null /\ pruned = Null /\ repruned = Null
    /\ airborne = FALSE /\ kept = Null

\* A direct call of the helpers on a generated value.
InitPure ==
    /\ pc = "input"
    /\ arg \in Inputs
    /\ pruned = Null /\ repruned = Null /\ airborne = FALSE /\ kept = Null
    /\ creds = NoCreds
    /\ requests_sent = <<>>
    /\ resp = NoResponse
    /\ status = NewStatus
    /\ payload = Null
    /\ flights = Null
    /\ extracted = <<>>
    /\ idx = 1
    /\ exc = ""

Init == InitFetch \/ InitPure

\* ------------------------------------------------------------------------
\* fetch_in_air_flights (aviationstack.py, lines 108-197)
\* ------------------------------------------------------------------------

\* `return status` with the given error_message
ReturnWith(msg) ==
    /\ status' = [status EXCEPT !.error_message = msg]
    /\ pc' = "returned"

\* host, token, limit = get_credentials()
GetCredentials ==
    /\ pc = "get_credentials"
    /\ \E env \in Envs :
         LET r == get_credentials(env)
         IN  IF r.exc = ""
             THEN /\ creds' = r.value
                  /\ pc' = "request"
                  /\ exc' = exc
             ELSE /\ exc' = r.exc
                  /\ pc' = "raised"
                  /\ creds' = creds
    /\ UNCHANGED <<requests_sent, resp, status, payload, flights, extracted, idx>>
    /\ UNCHANGED pureVars

\* The request of requests.get(host, params=params, timeout=timeout)
Request == [url |-> creds.host, access_key |-> creds.token, limit |-> creds.limit]

\* Plausible slip: a transport failure is retried once before giving up.
HttpGet_retry ==
    /\ pc = "request"
    /\ \/ \E code \in StatusCodes, body \in Bodies :
            /\ requests_sent' = Append(requests_sent, Request)
            /\ resp' = [status_code |-> code, body |-> body]
            /\ status' = [status EXCEPT !.connected = TRUE]
            /\ pc' = "check_http"
       \/ \E failure \in TransportFailures :
            /\ requests_sent' = requests_sent \o <<Request, Request>>
            /\ resp' = resp
            /\ ReturnWith(Message("Request failed: ", <<Str(failure)>>))
    /\ UNCHANGED <<creds, payload, flights, extracted, idx, exc>>
    /\ UNCHANGED pureVars

\* resp = requests.get(...); status.connected = True -- or one of the three
\* except clauses
HttpGet ==
    /\ pc = "request"
    /\ requests_sent' = Append(requests_sent, Request)
    /\ \/ \E code \in StatusCodes, body \in Bodies :
            /\ resp' = [status_code |-> code, body |-> body]
            /\ status' = [status EXCEPT !.connected = TRUE]
            /\ pc' = "check_http"
       \/ \E failure \in TransportFailures :
            /\ resp' = resp
            /\ ReturnWith(
                 CASE failure = "Timeout" -> Message("Request timed out.", <<>>)
                   [] failure = "ConnectionError" ->
                        Message("Connection error (could not reach the API).", <<>>)
                   [] failure = "RequestException" ->
                        Message("Unexpected request error: ", <<Str("e")>>))
    /\ UNCHANGED <<creds, payload, flights, extracted, idx, exc>>
    /\ UNCHANGED pureVars

\* Plausible slip: the `return status` of the non-200 branch is missing.
CheckHttp_noreturn ==
    /\ pc = "check_http"
    /\ IF resp.status_code # 200
       THEN /\ status' = [status EXCEPT
                            !.error_message =
                                Message("HTTP error ", <<Num(resp.status_code)>>)]
            /\ pc' = "parse_json"
       ELSE /\ status' = [status EXCEPT !.http_ok = TRUE]
            /\ pc' = "parse_json"
    /\ UNCHANGED <<creds, requests_sent, resp, payload, flights, extracted, idx, exc>>
    /\ UNCHANGED pureVars

\* if resp.status_code != 200: ... return status / status.http_ok = True
CheckHttp ==
    /\ pc = "check_http"
    /\ IF resp.status_code # 200
       THEN ReturnWith(Message("HTTP error ", <<Num(resp.status_code)>>))
       ELSE /\ status' = [status EXCEPT !.http_ok = TRUE]
            /\ pc' = "parse_json"
    /\ UNCHANGED <<creds, requests_sent, resp, payload, flights, extracted, idx, exc>>
    /\ UNCHANGED pureVars

\* payload = resp.json() / except ValueError; status.json_ok = True;
\* status.raw = payload
ParseJson ==
    /\ pc = "parse_json"
    /\ IF ~resp.body.json
       THEN /\ ReturnWith(Message("Response is not valid JSON.", <<>>))
            /\ payload' = payload
       ELSE /\ payload' = resp.body.value
            /\ status' = [status EXCEPT !.json_ok = TRUE, !.raw = resp.body.value]
            /\ pc' = "check_api"
    /\ UNCHANGED <<creds, requests_sent, resp, flights, extracted, idx, exc>>
    /\ UNCHANGED pureVars

\* if isinstance(payload, dict) and "error" in payload: ... / status.api_ok = True
\* err.get raises AttributeError when err is not a dict; no except clause of
\* the function catches it.
CheckApiError ==
    /\ pc = "check_api"
    /\ IF IsDict(payload) /\ HasKey(payload, "error")
       THEN LET err == Or(Get(payload, "error"), Dict(EmptyMap))
            IN  IF IsDict(err)
                THEN /\ ReturnWith(Message("API error: ",
                                           <<Get(err, "code"), Get(err, "message")>>))
                     /\ exc' = exc
                ELSE /\ exc' = "AttributeError"
                     /\ pc' = "raised"
                     /\ status' = status
       ELSE /\ status' = [status EXCEPT !.api_ok = TRUE]
            /\ pc' = "select_flights"
            /\ exc' = exc
    /\ UNCHANGED <<creds, requests_sent, resp, payload, flights, extracted, idx>>
    /\ UNCHANGED pureVars

\* Plausible slip: `payload.get("data") or payload.get("results")`, as
\* fetch_partial_in_air does, so that an empty `data` falls back to `results`.
SelectedFlights_or(p) ==
    IF ~IsDict(p) THEN Null
    ELSE IF IsList(Get(p, "data")) /\ Truthy(Get(p, "data")) THEN Get(p, "data")
    ELSE IF IsList(Get(p, "results")) THEN Get(p, "results")
    ELSE Null

\* flights = None; if isinstance(payload, dict): data if it is a list, else
\* results if it is a list
SelectedFlights(p) ==
    IF ~IsDict(p) THEN Null
    ELSE IF IsList(Get(p, "data")) THEN Get(p, "data")
    ELSE IF IsList(Get(p, "results")) THEN Get(p, "results")
    ELSE Null

\* Plausible slip: `if flights is None` instead of `if not flights`.
SelectFlights_isnone ==
    /\ pc = "select_flights"
    /\ flights' = SelectedFlights(payload)
    /\ IF IsNone(flights')
       THEN ReturnWith(Message(
                "No flights list found (expected \"data\" or \"results\").", <<>>))
       ELSE /\ status' = [status EXCEPT !.has_flights_array = TRUE]
            /\ pc' = "loop"
    /\ extracted' = <<>>
    /\ idx' = 1
    /\ UNCHANGED <<creds, requests_sent, resp, payload, exc>>
    /\ UNCHANGED pureVars

\* flights = ...; if not flights: ... return status /
\* status.has_flights_array = True; extracted = []
SelectFlights ==
    /\ pc = "select_flights"
    /\ flights' = SelectedFlights(payload)
    /\ IF ~Truthy(flights')
       THEN ReturnWith(Message(
                "No flights list found (expected \"data\" or \"results\").", <<>>))
       ELSE /\ status' = [status EXCEPT !.has_flights_array = TRUE]
            /\ pc' = "loop"
    /\ extracted' = <<>>
    /\ idx' = 1
    /\ UNCHANGED <<creds, requests_sent, resp, payload, exc>>
    /\ UNCHANGED pureVars

\* isinstance(flight, dict) and is_in_air(flight)
Selects(flight) == IsDict(flight) /\ is_in_air(flight)

\* Plausible slip: the record is appended as it came.
Pruned_not(flight) == flight

\* prune(flight) or flight
Pruned(flight) == Or(prune(flight), flight)

\* One iteration of `for flight in flights:`
LoopStep ==
    /\ pc = "loop"
    /\ idx <= Len(flights.v)
    /\ LET flight == flights.v[idx]
       IN  extracted' = IF Selects(flight)
                        THEN Append(extracted, Pruned(flight))
                        ELSE extracted
    /\ idx' = idx + 1
    /\ UNCHANGED <<pc, creds, requests_sent, resp, status, payload, flights, exc>>
    /\ UNCHANGED pureVars

\* Plausible slip: the warning of the zero-match case is not set.
Finish_nowarning ==
    /\ pc = "loop"
    /\ idx > Len(flights.v)
    /\ status' = [status EXCEPT
                    !.flights_extracted = extracted,
                    !.extracted_any = Len(extracted) > 0]
    /\ pc' = "returned"
    /\ UNCHANGED <<creds, requests_sent, resp, payload, flights, extracted, idx, exc>>
    /\ UNCHANGED pureVars

\* After the loop: flights_extracted, extracted_any, the warning, return status
Finish ==
    /\ pc = "loop"
    /\ idx > Len(flights.v)
    /\ LET any == Len(extracted) > 0
       IN  status' = [status EXCEPT
                        !.flights_extracted = extracted,
                        !.extracted_any = any,
                        !.error_message =
                            IF ~any
                            THEN Message("Request succeeded, but no in-air flights matched criteria.", <<>>)
                            ELSE @]
    /\ pc' = "returned"
    /\ UNCHANGED <<creds, requests_sent, resp, payload, flights, extracted, idx, exc>>
    /\ UNCHANGED pureVars

\* ------------------------------------------------------------------------
\* Direct calls of the helpers
\* ------------------------------------------------------------------------

\* prune(arg)
CallPrune ==
    /\ pc = "input"
    /\ pruned' = prune(arg)
    /\ pc' = "pruned"
    /\ UNCHANGED <<arg, repruned, airborne, kept>>
    /\ UNCHANGED fetchVars

\* prune(prune(arg))
CallPruneAgain ==
    /\ pc = "pruned"
    /\ repruned' = prune(pruned)
    /\ pc' = "repruned"
    /\ UNCHANGED <<arg, pruned, airborne, kept>>
    /\ UNCHANGED fetchVars

\* is_in_air(arg), arg a mapping
CallIsInAir ==
    /\ pc = "input"
    /\ IsDict(arg)
    /\ airborne' = is_in_air(arg)
    /\ pc' = "judged"
    /\ UNCHANGED <<arg, pruned, repruned, kept>>
    /\ UNCHANGED fetchVars

\* prune(arg) and `prune(arg) or arg`, for an airborne record arg
CallKeep ==
    /\ pc = "judged"
    /\ airborne
    /\ pruned' = prune(arg)
    /\ kept' = Pruned(arg)
    /\ pc' = "kept"
    /\ UNCHANGED <<arg, repruned, airborne>>
    /\ UNCHANGED fetchVars

Next ==
    \/ GetCredentials
    \/ HttpGet
    \/ CheckHttp
    \/ ParseJson
    \/ CheckApiError
    \/ SelectFlights
    \/ LoopStep
    \/ Finish
    \/ CallPrune
    \/ CallPruneAgain
    \/ CallIsInAir
    \/ CallKeep

Spec == Init /\ [][Next]_vars

\* ------------------------------------------------------------------------
\* Properties
\* ------------------------------------------------------------------------

NoFlightsMessage ==
    Message("No flights list found (expected \"data\" or \"results\").", <<>>)

\* payload[k] is a non-empty list
NonEmptyListAt(p, k) ==
    /\ IsDict(p)
    /\ k \in DOMAIN p.v
    /\ p.v[k].t = "list"
    /\ p.v[k].v # <<>>

\* payload[k] is a list
ListAt(p, k) == IsDict(p) /\ k \in DOMAIN p.v /\ p.v[k].t = "list"

\* C1: in every state of the status record, and so in every returned
\* FetchStatus, no checkpoint is true while an earlier checkpoint is false.
C1_CheckpointsOrdered ==
    /\ status.http_ok => status.connected
    /\ status.json_ok => status.http_ok
    /\ status.api_ok => status.json_ok
    /\ status.has_flights_array => status.api_ok
    /\ status.extracted_any => status.has_flights_array

\* A non-200 response whose body is a well-formed flights payload has been
\* turned into a returned status.
C1_Witness ==
    /\ pc = "returned"
    /\ resp.status_code = 404
    /\ resp.body.json
    /\ NonEmptyListAt(resp.body.value, "data")
    /\ status.connected
    /\ ~status.http_ok

\* C2: once get_credentials has returned, fetch_in_air_flights never leaves
\* by an exception, whatever the transport outcome, status code and body.
C2_NeverRaisesAfterCredentials == (pc = "raised") => (creds = NoCreds)

\* C3: the credential provider is called before any GET: when it fails the
\* failure propagates, no GET is issued and no status is returned; when it
\* succeeds exactly one GET, built from its result, is issued by the call.
C3_CredentialsThenOneGet ==
    /\ Len(requests_sent) <= 1
    /\ requests_sent # <<>> =>
         /\ creds # NoCreds
         /\ requests_sent[1] = [url |-> creds.host, access_key |-> creds.token,
                                limit |-> creds.limit]
    /\ (pc = "raised" /\ creds = NoCreds) =>
         /\ exc \in {"RuntimeError", "ValueError", "InvalidToken"}
         /\ requests_sent = <<>>
         /\ status = NewStatus
    /\ pc = "returned" => creds # NoCreds
    /\ (creds # NoCreds /\ pc \in {"returned", "raised"}) => Len(requests_sent) = 1

\* A call whose single GET failed at the transport level has returned.
C3_Witness ==
    /\ pc = "returned"
    /\ ~status.connected
    /\ Len(requests_sent) = 1
    /\ creds.limit = DefaultLimit

\* C4: in every returned FetchStatus, error_message is set if and only if
\* extracted_any is false.
C4_MessageIffNothingExtracted ==
    (pc = "returned") => (status.error_message.set <=> ~status.extracted_any)

\* A status with extracted flights and no message has been returned.
C4_Witness ==
    /\ pc = "returned"
    /\ status.extracted_any
    /\ status.error_message = NoMessage

\* C5: for a non-error mapping body whose `data` is a list, the flights list
\* used is `data`'s value, never `results`'s, even when `data` is empty and
\* `results` is a non-empty list.
C5_DataPreferred ==
    (pc \in {"loop", "returned"} /\ status.api_ok /\ ListAt(payload, "data"))
        => flights = payload.v["data"]

\* An empty `data` next to a non-empty `results` has been selected.
C5_Witness ==
    /\ pc = "returned"
    /\ status.api_ok
    /\ ListAt(payload, "data")
    /\ payload.v["data"].v = <<>>
    /\ NonEmptyListAt(payload, "results")
    /\ flights = List(<<>>)

\* C6 as stated: once api_ok holds, the call returns has_flights_array=false
\* with the "No flights list found" message if and only if neither `data`
\* nor `results` holds a non-empty list; whenever either key holds a
\* non-empty list has_flights_array is true.
C6_EitherKeyNonEmpty ==
    (pc = "returned" /\ status.api_ok) =>
        /\ (~status.has_flights_array /\ status.error_message = NoFlightsMessage)
             <=> ~(NonEmptyListAt(payload, "data") \/ NonEmptyListAt(payload, "results"))
        /\ (NonEmptyListAt(payload, "data") \/ NonEmptyListAt(payload, "results"))
             => status.has_flights_array

\* C6 amended: once api_ok holds, the call returns has_flights_array=false
\* with the "No flights list found" message if and only if the preferred
\* list is missing or empty, the preferred list being `data`'s value when it
\* is a list and otherwise `results`'s value when that is a list; in every
\* other case has_flights_array is true.
C6_PreferredListNonEmpty ==
    (pc = "returned" /\ status.api_ok) =>
        LET usable == IF ListAt(payload, "data")
                      THEN NonEmptyListAt(payload, "data")
                      ELSE NonEmptyListAt(payload, "results")
        IN  /\ (~status.has_flights_array /\ status.error_message = NoFlightsMessage)
                 <=> ~usable
            /\ status.has_flights_array <=> usable

\* An empty `data` list hid a non-empty `results` list.
C6_Witness ==
    /\ pc = "returned"
    /\ status.api_ok
    /\ ~status.has_flights_array
    /\ status.error_message = NoFlightsMessage
    /\ ListAt(payload, "data")
    /\ NonEmptyListAt(payload, "results")

\* The pruned copies of the mappings of s that are airborne, in the order of s.
RECURSIVE AirbornePruned(_)
AirbornePruned(s) ==
    IF s = <<>> THEN <<>>
    ELSE (IF Head(s).t = "dict" /\ is_in_air(Head(s))
          THEN <<prune(Head(s))>>
          ELSE <<>>) \o AirbornePruned(Tail(s))

\* C7: when has_flights_array is true in the returned status,
\* flights_extracted is exactly the pruned copies of the airborne mappings of
\* the selected list in their original order and extracted_any tells whether
\* there is one; when has_flights_array is false, flights_extracted is empty.
C7_ExtractionExact ==
    (pc = "returned") =>
        IF status.has_flights_array
        THEN /\ status.flights_extracted = AirbornePruned(flights.v)
             /\ status.extracted_any <=> (Len(status.flights_extracted) > 0)
        ELSE status.flights_extracted = <<>>

\* A list of which one element was skipped and one was kept in pruned form.
C7_Witness ==
    /\ pc = "returned"
    /\ status.has_flights_array
    /\ Len(flights.v) = 2
    /\ Len(status.flights_extracted) = 1
    /\ \A i \in 1..2 : flights.v[i] # status.flights_extracted[1]

\* record.live is a mapping with the key is_ground
HasGroundFlag(f) ==
    /\ "live" \in DOMAIN f.v
    /\ f.v["live"].t = "dict"
    /\ "is_ground" \in DOMAIN f.v["live"].v

\* C8: is_in_air is two-tier: with a `live` mapping that has `is_ground`, the
\* result is true exactly when is_ground is the boolean false, whatever
\* flight_status is; otherwise it is true exactly when flight_status is
\* "active".
C8_TwoTier ==
    (pc = "judged") =>
        IF HasGroundFlag(arg)
        THEN airborne <=> (/\ arg.v["live"].v["is_ground"].t = "bool"
                           /\ arg.v["live"].v["is_ground"].v = FALSE)
        ELSE airborne <=> (/\ "flight_status" \in DOMAIN arg.v
                           /\ arg.v["flight_status"].t = "str"
                           /\ arg.v["flight_status"].v = "active")

\* A record with is_ground false was judged airborne although its
\* flight_status is "scheduled".
C8_Witness ==
    /\ pc = "judged"
    /\ HasGroundFlag(arg)
    /\ airborne
    /\ Get(arg, "flight_status") = Str("scheduled")

\* C9: prune is idempotent: prune(prune(x)) = prune(x) for every JSON value x.
C9_PruneIdempotent == (pc = "repruned") => (repruned = pruned)

\* A mapping that lost something to pruning, without collapsing, was pruned
\* twice.
C9_Witness ==
    /\ pc = "repruned"
    /\ IsDict(arg)
    /\ IsDict(pruned)
    /\ pruned # arg

\* C10: pruning keeps the airborne signal: for an airborne mapping f,
\* prune(f) is a non-empty mapping, so that `prune(f) or f` is prune(f), and
\* is_in_air(prune(f)) holds; every element of flights_extracted of a
\* returned status is airborne.
C10_PruneKeepsAirborne ==
    /\ (pc = "kept") =>
          /\ pruned.t = "dict"
          /\ DOMAIN pruned.v # {}
          /\ kept = pruned
          /\ is_in_air(pruned)
    /\ (pc = "returned") =>
          \A i \in 1..Len(status.flights_extracted) :
              /\ status.flights_extracted[i].t = "dict"
              /\ is_in_air(status.flights_extracted[i])

\* An airborne record that pruning changed has been kept.
C10_Witness ==
    /\ pc = "kept"
    /\ airborne
    /\ kept # arg
    /\ HasGroundFlag(arg)

====
